---- MODULE Spec2Model ----
(***************************************************************************)
(* Books API (src/app.js): an express service whose handlers load the     *)
(* whole collection from books.json, transform it and save it back        *)
(* through a promise-chain write queue (write to books.json.tmp, then     *)
(* rename over books.json).                                                *)
(*                                                                         *)
(* One action is one turn of the Node event loop: the completion of an    *)
(* I/O call together with the promise continuations it triggers (they     *)
(* run as microtasks before any other I/O completion is delivered).        *)
(***************************************************************************)
EXTENDS Integers, Sequences, FiniteSets, TLC

(* ---------------------------- bounds ---------------------------------- *)

\* handlers that may be in flight at once under Spec
NumHandlers == 2
\* requests served in one behaviour of Spec
MaxRequests == 2
\* requests served in one behaviour of SpecSeq (one request at a time)
MaxSeqRequests == 3
\* storage failures (readFile, writeFile, rename) in one behaviour
MaxFailures == 2

(* ------------------------- JavaScript values --------------------------- *)

Undefined == [t |-> "undefined", s |-> ""]
Null == [t |-> "null", s |-> ""]
Str(x) == [t |-> "string", s |-> x]
Bool(b) == [t |-> "boolean", s |-> IF b THEN "true" ELSE "false"]

\* ToBoolean: what `!v` and Boolean(v) test
Truthy(v) ==
  ~ \/ v.t = "undefined"
    \/ v.t = "null"
    \/ (v.t = "string" /\ v.s = "")
    \/ (v.t = "boolean" /\ v.s = "false")

BOOKS_FILE == "books.json"

TmpPathSame == BOOKS_FILE

\* const tmp = BOOKS_FILE + '.tmp'
TmpPath == "books.json.tmp"

SAMPLE_BOOKS ==
  << [id |-> 1, title |-> Str("Atomic Habits"), author |-> Str("James Clear"),
      available |-> Bool(TRUE)],
     [id |-> 2, title |-> Str("Deep Work"), author |-> Str("Cal Newport"),
      available |-> Bool(FALSE)] >>

(* ------------------------------ JSON ----------------------------------- *)
\* A JSON text of the collection is a sequence of objects, an object a
\* sequence of members [key, tok] in the order the keys were written, a
\* token a number, a string or one of the literals true, false, null.

NumTok(n) == [k |-> "number", n |-> n, s |-> ""]
StrTok(x) == [k |-> "string", n |-> 0, s |-> x]
LitTok(x) == [k |-> "literal", n |-> 0, s |-> x]

stringifyMemberOmitFalsy(key, v) ==
  CASE ~ Truthy(v)       -> << >>
    [] v.t = "string"    -> << [key |-> key, tok |-> StrTok(v.s)] >>
    [] v.t = "boolean"   -> << [key |-> key, tok |-> LitTok(v.s)] >>

\* JSON.stringify of one property: a property holding undefined is omitted
stringifyMember(key, v) ==
  CASE v.t = "undefined" -> << >>
    [] v.t = "string"    -> << [key |-> key, tok |-> StrTok(v.s)] >>
    [] v.t = "boolean"   -> << [key |-> key, tok |-> LitTok(v.s)] >>
    [] v.t = "null"      -> << [key |-> key, tok |-> LitTok("null")] >>

stringifyBook(b) ==
  << [key |-> "id", tok |-> NumTok(b.id)] >>
    \o stringifyMember("title", b.title)
    \o stringifyMember("author", b.author)
    \o stringifyMember("available", b.available)

\* JSON.stringify(books, null, 2)
JSONstringify(books) == [i \in DOMAIN books |-> stringifyBook(books[i])]

parseValue(tok) ==
  CASE tok.k = "string" -> Str(tok.s)
    [] tok.k = "literal" /\ tok.s = "null" -> Null
    [] tok.k = "literal" /\ tok.s # "null" -> Bool(tok.s = "true")

\* the value of property `key` of a parsed object; undefined when absent
getMember(obj, key) ==
  IF \E i \in DOMAIN obj : obj[i].key = key
    THEN parseValue(obj[CHOOSE i \in DOMAIN obj : obj[i].key = key].tok)
    ELSE Undefined

parseBook(obj) ==
  [id |-> IF \E i \in DOMAIN obj : obj[i].key = "id"
            THEN obj[CHOOSE i \in DOMAIN obj : obj[i].key = "id"].tok.n
            ELSE 0,
   title |-> getMember(obj, "title"),
   author |-> getMember(obj, "author"),
   available |-> getMember(obj, "available")]

JSONparseReversed(text) ==
  [i \in DOMAIN text |-> parseBook(text[Len(text) + 1 - i])]

\* JSON.parse(raw)
JSONparse(text) == [i \in DOMAIN text |-> parseBook(text[i])]

(* --------------------------- file contents ----------------------------- *)

Missing == [kind |-> "missing", data |-> << >>]
\* a file that exists and is not parseable
Corrupt == [kind |-> "corrupt", data |-> << >>]
\* a file holding a proper prefix of a JSON text (a writeFile in progress
\* or interrupted)
Partial == [kind |-> "partial", data |-> << >>]
Text(books) == [kind |-> "text", data |-> JSONstringify(books)]

(* ------------------------------ requests ------------------------------- *)

GET_BOOKS == "GET /books"
GET_AVAILABLE == "GET /books/available"
POST_BOOKS == "POST /books"
PUT_BOOK == "PUT /books/:id"
DELETE_BOOK == "DELETE /books/:id"

Req(m, id, title, author, available) ==
  [method |-> m, id |-> id, title |-> title, author |-> author,
   available |-> available]

NoReq == Req("", "", Undefined, Undefined, Undefined)

\* Number(req.params.id) for the path parameters the model sends
Number(p) ==
  CASE p = "1"   -> [integer |-> TRUE, n |-> 1]
    [] p = "2"   -> [integer |-> TRUE, n |-> 2]
    [] p = "3"   -> [integer |-> TRUE, n |-> 3]
    [] p = "4"   -> [integer |-> TRUE, n |-> 4]
    [] p = "0"   -> [integer |-> TRUE, n |-> 0]
    [] p = "-1"  -> [integer |-> TRUE, n |-> 0 - 1]
    [] p = "1.5" -> [integer |-> FALSE, n |-> 1]
    [] OTHER     -> [integer |-> FALSE, n |-> 0]

InvalidIdNaNOnly(p) == ~ Number(p).integer

\* !Number.isInteger(id) || id <= 0
InvalidId(p) == ~ Number(p).integer \/ Number(p).n <= 0

\* The checks a handler makes before its first await; "" when they pass.
Validate(r) ==
  CASE r.method = POST_BOOKS ->
         IF ~ Truthy(r.title) \/ ~ Truthy(r.author)
           THEN "title and author are required" ELSE ""
    [] r.method = PUT_BOOK ->
         IF InvalidId(r.id) THEN "Invalid id"
         ELSE IF r.title = Undefined /\ r.author = Undefined
                 /\ r.available = Undefined
           THEN "Provide at least one of title, author, available"
         ELSE ""
    [] r.method = DELETE_BOOK ->
         IF InvalidId(r.id) THEN "Invalid id" ELSE ""
    [] OTHER -> ""

(* ----------------------- the handlers' pure parts ---------------------- *)

reduceMaxKeepsInitial(books, i, m) == m

RECURSIVE reduceMax(_, _, _)
\* books.reduce((m, b) => Math.max(m, b.id || 0), 0), from index i on
reduceMax(books, i, m) ==
  IF i > Len(books) THEN m
  ELSE reduceMax(books, i + 1, IF books[i].id > m THEN books[i].id ELSE m)

maxIdByLength(books) == Len(books)

maxIdFromOne(books) == reduceMax(books, 1, 1)

maxId(books) == reduceMax(books, 1, 0)

findIndexOrLast(books, id) ==
  IF \E i \in DOMAIN books : books[i].id = id
    THEN CHOOSE i \in DOMAIN books :
           books[i].id = id /\ \A j \in 1..(i - 1) : books[j].id # id
    ELSE IF books = << >> THEN 0 - 1 ELSE Len(books)

\* books.findIndex(b => b.id === id), 1-based; -1 when there is none
findIndex(books, id) ==
  IF \E i \in DOMAIN books : books[i].id = id
    THEN CHOOSE i \in DOMAIN books :
           books[i].id = id /\ \A j \in 1..(i - 1) : books[j].id # id
    ELSE 0 - 1

\* books.filter(b => b.available === true)
filterAvailable(books) == SelectSeq(books, LAMBDA b : b.available = Bool(TRUE))

newBookNoIncrement(r, books) ==
  [id |-> maxId(books),
   title |-> r.title,
   author |-> r.author,
   available |-> IF r.available.t = "boolean" THEN r.available ELSE Bool(TRUE)]

\* the record POST /books builds
newBook(r, books) ==
  [id |-> maxId(books) + 1,
   title |-> r.title,
   author |-> r.author,
   available |-> IF r.available.t = "boolean" THEN r.available ELSE Bool(TRUE)]

updateBookReplacing(r, book) ==
  [id |-> book.id, title |-> r.title, author |-> r.author,
   available |-> Bool(Truthy(r.available))]

\* the assignments PUT /books/:id makes to the record it found
updateBook(r, book) ==
  [id |-> book.id,
   title |-> IF r.title # Undefined THEN r.title ELSE book.title,
   author |-> IF r.author # Undefined THEN r.author ELSE book.author,
   available |-> IF r.available # Undefined THEN Bool(Truthy(r.available))
                 ELSE book.available]

spliceToEnd(books, idx) == SubSeq(books, 1, idx - 1)

\* books.splice(idx, 1): the collection without its idx-th record
splice(books, idx) ==
  [i \in 1..(Len(books) - 1) |-> IF i < idx THEN books[i] ELSE books[i + 1]]

(* ------------------------------- state --------------------------------- *)

VARIABLES
  fs,          \* path -> content of books.json and books.json.tmp
  writeQueue,  \* the promise chain: [state, links]
  hs,          \* handler -> its position, request, locals and response
  conc,        \* how many handlers the framework runs at once
  reqLeft,     \* requests still to arrive
  fails,       \* storage failures still to happen
  nsub,        \* history: writes submitted to the queue so far
  file0,       \* history: books.json as it was at start
  saved,       \* history: the collections passed to writeBooksFile
  assigned,    \* history: the ids given out by POST /books, in order
  ncommit,     \* history: renames onto books.json so far
  commits      \* history: the renames onto books.json, oldest first

vars == << fs, writeQueue, hs, conc, reqLeft, fails, nsub, file0, saved,
           assigned, ncommit, commits >>

Handlers == 1..NumHandlers

IdleHandler ==
  [pc |-> "idle", req |-> NoReq, loaded |-> << >>, books |-> << >>,
   idx |-> 0, status |-> 0, error |-> "", body |-> << >>,
   touched |-> FALSE, raced |-> FALSE, seeded |-> FALSE, enq |-> 0,
   own |-> "none", via |-> "", prev |-> "", seen |-> << >>, wseq |-> 0]

\* A handler after its `await readBooksFile()` returned `books`: the rest of
\* the handler up to its next await or its response.  write tells whether
\* it called writeBooksFile(h.books).
AfterLoad(h, books) ==
  LET r == h.req
      l == [h EXCEPT !.loaded = books, !.books = books]
  IN
  CASE r.method = GET_BOOKS ->
         [h |-> [l EXCEPT !.pc = "done", !.status = 200, !.body = books],
          write |-> FALSE]
    [] r.method = GET_AVAILABLE ->
         [h |-> [l EXCEPT !.pc = "done", !.status = 200,
                          !.body = filterAvailable(books)],
          write |-> FALSE]
    [] r.method = POST_BOOKS ->
         [h |-> [l EXCEPT !.pc = "saving",
                          !.books = Append(books, newBook(r, books)),
                          !.idx = Len(books) + 1,
                          !.body = << newBook(r, books) >>],
          write |-> TRUE]
    [] r.method = PUT_BOOK ->
         LET idx == findIndex(books, Number(r.id).n) IN
         IF idx = 0 - 1
           THEN [h |-> [l EXCEPT !.pc = "done", !.status = 404,
                                 !.error = "Book not found"],
                 write |-> FALSE]
           ELSE [h |-> [l EXCEPT !.pc = "saving",
                                 !.books[idx] = updateBook(r, books[idx]),
                                 !.idx = idx,
                                 !.body = << updateBook(r, books[idx]) >>],
                 write |-> TRUE]
    [] r.method = DELETE_BOOK ->
         LET idx == findIndex(books, Number(r.id).n) IN
         IF idx = 0 - 1
           THEN [h |-> [l EXCEPT !.pc = "done", !.status = 404,
                                 !.error = "Book not found"],
                 write |-> FALSE]
           ELSE [h |-> [l EXCEPT !.pc = "saving",
                                 !.books = splice(books, idx),
                                 !.idx = idx,
                                 !.body = << books[idx] >>],
                 write |-> TRUE]

\* the status the success response of a mutating handler carries
SuccessStatus(r) == IF r.method = POST_BOOKS THEN 201 ELSE 200

\* The centralized error handler's message for an error of the given kind.
ErrorMessage(kind) ==
  CASE kind = "ENOENT" -> "Books file missing and could not be created"
    [] kind = "SyntaxError" -> "Books file contains invalid JSON"
    [] OTHER -> "Internal server error"

(* ---------------------------- write queue ------------------------------ *)
\* writeQueue.state is the state of the newest settled promise of the
\* chain, writeQueue.links the promises still pending, oldest first.  A
\* link is one call of enqueueWrite: phase "waiting" until the promise
\* before it settles, then its fn runs: "writing" (fs.writeFile in
\* progress), "written" (fs.rename in progress).

Link(owner, seed, books, seq) ==
  [owner |-> owner, seed |-> seed, books |-> books, seq |-> seq,
   phase |-> "waiting", via |-> "", prev |-> "", runs |-> 0]

enqueueWriteFirst(wq, link) == [wq EXCEPT !.links = << link >> \o @]

\* writeQueue = writeQueue.then(...).catch(...): the new promise is chained
\* to the newest one
enqueueWrite(wq, link) == [wq EXCEPT !.links = Append(@, link)]

RunnableAny(wq, i) == TRUE

RunnableUnlessRejected(wq, i) == i = 1 /\ wq.state = "fulfilled"

\* The callbacks of a link fire when the promise it was chained to has
\* settled, i.e. when every link before it has.
Runnable(wq, i) == i = 1

OnSettledThenOnly(state) == IF state = "fulfilled" THEN "then" ELSE "skip"

\* Which callback of `.then(() => fn()).catch(() => fn())` runs fn when the
\* promise before has settled in `state`: then's when it fulfilled; when it
\* rejected, then's is skipped and the rejection reaches catch's.
OnSettled(state) == IF state = "fulfilled" THEN "then" ELSE "catch"

OnRunFailedSwallow(via) == "swallow"

\* fn() rejected.  Called by then's callback, the rejection reaches
\* .catch(() => fn()), which calls fn again; called by catch's callback, the
\* chain's promise rejects.
OnRunFailed(via) == IF via = "then" THEN "rerun" ELSE "reject"

RemoveAt(seq, i) ==
  [j \in 1..(Len(seq) - 1) |-> IF j < i THEN seq[j] ELSE seq[j + 1]]

(* ------------------------------ inputs --------------------------------- *)

\* the requests sent while several handlers are in flight
ConcRequests ==
  { Req(GET_BOOKS, "", Undefined, Undefined, Undefined),
    Req(POST_BOOKS, "", Str("X"), Str("Y"), Undefined),
    Req(PUT_BOOK, "1", Undefined, Undefined, Bool(FALSE)),
    Req(PUT_BOOK, "abc", Str("Z"), Undefined, Undefined),
    Req(DELETE_BOOK, "1", Undefined, Undefined, Undefined) }

IdParams == {"1", "3", "abc", "-1"}

\* the payloads of the PUT requests sent one after another: [title, author,
\* available]
PutBodies ==
  { << Undefined, Undefined, Undefined >>,
    << Undefined, Undefined, Bool(FALSE) >>,
    << Undefined, Undefined, Str("yes") >>,
    << Str("Z"), Undefined, Undefined >>,
    << Str(""), Undefined, Undefined >>,
    << Undefined, Str("W"), Undefined >>,
    << Str("Z"), Undefined, Bool(TRUE) >> }

\* the payloads of the POST requests sent one after another
PostBodies ==
  { << Str("X"), Str("Y"), Undefined >>,
    << Str("X"), Str("Y"), Bool(FALSE) >>,
    << Str("X"), Str("Y"), Str("yes") >>,
    << Str(""), Str("Y"), Undefined >>,
    << Undefined, Str("Y"), Undefined >>,
    << Str("X"), Undefined, Undefined >> }

\* the requests sent one after another
SeqRequests ==
  { Req(m, "", Undefined, Undefined, Undefined) :
      m \in {GET_BOOKS, GET_AVAILABLE} }
  \cup { Req(POST_BOOKS, "", b[1], b[2], b[3]) : b \in PostBodies }
  \cup { Req(PUT_BOOK, id, b[1], b[2], b[3]) :
           id \in IdParams, b \in PutBodies }
  \cup { Req(DELETE_BOOK, id, Undefined, Undefined, Undefined) :
           id \in IdParams }

Requests == IF conc = 1 THEN SeqRequests ELSE ConcRequests

\* books.json at start: absent, unparseable, empty, or one record
InitFiles ==
  { Missing, Corrupt, Text(<< >>),
    Text(<< [id |-> 2, title |-> Str("T"), author |-> Str("A"),
             available |-> Bool(TRUE)] >>) }

(* ------------------------------ actions -------------------------------- *)

Busy(h) == hs[h].pc \notin {"idle", "done"}

\* The framework dispatches request r to handler h, which runs up to its
\* first await: it validates and either responds 400 or calls
\* readBooksFile, i.e. issues fs.readFile.
Request(h, r) ==
  /\ reqLeft > 0
  /\ ~ Busy(h)
  /\ \A g \in Handlers : g < h => Busy(g)
  /\ Cardinality({g \in Handlers : Busy(g)}) < conc
  /\ reqLeft' = reqLeft - 1
  /\ hs' = [hs EXCEPT ![h] =
       IF Validate(r) # ""
         THEN [IdleHandler EXCEPT !.pc = "done", !.req = r, !.status = 400,
                                  !.error = Validate(r)]
         ELSE [IdleHandler EXCEPT !.pc = "reading", !.req = r,
                                  !.touched = TRUE]]
  /\ UNCHANGED << fs, writeQueue, conc, fails, nsub, file0, saved, assigned,
                  ncommit,
                  commits >>

\* Handler hrec of o resumes with the collection readBooksFile returned and
\* runs to its response or to its `await writeBooksFile(books)`.
Resume(o, hrec, books, wq) ==
  LET res == AfterLoad(hrec, books) IN
  /\ hs' = [hs EXCEPT ![o] =
              IF res.write
                THEN [res.h EXCEPT !.enq = @ + 1, !.wseq = nsub + 1]
                ELSE res.h]
  /\ writeQueue' =
       IF res.write
         THEN enqueueWrite(wq, Link(o, FALSE, res.h.books, nsub + 1))
         ELSE wq
  /\ nsub' = IF res.write THEN nsub + 1 ELSE nsub
  /\ saved' = IF res.write THEN saved \cup {res.h.books} ELSE saved

\* history: a write is between its fs.writeFile and the end of its fs.rename
InFlight == \E i \in DOMAIN writeQueue.links :
              writeQueue.links[i].phase # "waiting"

\* history: the collection of the newest rename, if there was one
LastCommitted ==
  IF commits = << >> THEN << >> ELSE << commits[Len(commits)].books >>

readResultSeedOnAnyError(file) ==
  IF file.kind = "text" THEN "parsed" ELSE "ENOENT"

\* How `await fs.readFile` and JSON.parse end on the file, as the catch
\* block of readBooksFile tells them apart: parsed, err.code === 'ENOENT',
\* or the SyntaxError it rethrows.
readResult(file) ==
  CASE file.kind = "text" -> "parsed"
    [] file.kind = "missing" -> "ENOENT"
    [] OTHER -> "SyntaxError"

\* fs.readFile(BOOKS_FILE) of handler h completes.
ReadFile(h) ==
  /\ hs[h].pc = "reading"
  /\ CASE readResult(fs[BOOKS_FILE]) = "parsed" ->
            Resume(h, [hs[h] EXCEPT !.raced = InFlight,
                                    !.seen = LastCommitted],
                   JSONparse(fs[BOOKS_FILE].data), writeQueue)
       [] readResult(fs[BOOKS_FILE]) = "ENOENT" ->
            \* ENOENT: await writeBooksFile(SAMPLE_BOOKS)
            /\ hs' = [hs EXCEPT ![h].pc = "seeding"]
            /\ writeQueue' =
                 enqueueWrite(writeQueue, Link(h, TRUE, SAMPLE_BOOKS, nsub + 1))
            /\ nsub' = nsub + 1
            /\ saved' = saved \cup {SAMPLE_BOOKS}
       [] OTHER ->
            \* JSON.parse throws
            /\ hs' = [hs EXCEPT ![h].pc = "done", ![h].status = 500,
                                ![h].error = ErrorMessage("SyntaxError")]
            /\ UNCHANGED << writeQueue, nsub, saved >>
  /\ UNCHANGED << fs, conc, reqLeft, fails, file0, assigned, ncommit,
                  commits >>

\* fs.readFile fails with an error other than ENOENT.
ReadFileError(h) ==
  /\ hs[h].pc = "reading"
  /\ fails > 0
  /\ fails' = fails - 1
  /\ hs' = [hs EXCEPT ![h].pc = "done", ![h].status = 500,
                      ![h].error = ErrorMessage("EIO")]
  /\ UNCHANGED << fs, writeQueue, conc, reqLeft, nsub, file0, saved,
                  assigned, ncommit,
                  commits >>

\* The promise of link i settles: it leaves the chain and the handler
\* awaiting it resumes.  own is how the link's last run of fn ended.
Settle(i, outcome, own) ==
  LET link == writeQueue.links[i]
      o == link.owner
      wq == [state |-> outcome, links |-> RemoveAt(writeQueue.links, i)]
      h == [hs[o] EXCEPT !.own = own, !.via = link.via, !.prev = link.prev]
  IN
  IF outcome = "rejected"
    THEN /\ hs' = [hs EXCEPT ![o] =
                     [h EXCEPT !.pc = "done", !.status = 500,
                               !.error = ErrorMessage("EIO")]]
         /\ writeQueue' = wq
         /\ UNCHANGED << nsub, saved, assigned >>
  ELSE IF link.seed
    THEN \* readBooksFile returns SAMPLE_BOOKS.map(b => ({ ...b }))
         /\ Resume(o, [h EXCEPT !.seeded = TRUE, !.seen = << link.books >>],
                   [k \in DOMAIN SAMPLE_BOOKS |-> SAMPLE_BOOKS[k]], wq)
         /\ UNCHANGED assigned
    ELSE /\ hs' = [hs EXCEPT ![o] =
                     [h EXCEPT !.pc = "done",
                               !.status = SuccessStatus(h.req)]]
         /\ writeQueue' = wq
         /\ assigned' = IF h.req.method = POST_BOOKS
                          THEN Append(assigned, h.body[1].id) ELSE assigned
         /\ UNCHANGED << nsub, saved >>

\* fn of link i is called: it issues fs.writeFile(tmp, data), which opens
\* and truncates the temporary file.
CallFn(i, via) ==
  /\ writeQueue' = [writeQueue EXCEPT
                      !.links[i].phase = "writing",
                      !.links[i].via = via,
                      !.links[i].prev = IF @ = "" THEN writeQueue.state ELSE @,
                      !.links[i].runs = @ + 1]
  /\ fs' = [fs EXCEPT ![TmpPath] = Partial]
  /\ UNCHANGED << hs, nsub, saved, assigned >>

\* The promise link i was chained to has settled.
StartWrite(i) ==
  /\ i \in DOMAIN writeQueue.links
  /\ writeQueue.links[i].phase = "waiting"
  /\ Runnable(writeQueue, i)
  /\ IF OnSettled(writeQueue.state) = "skip"
       THEN Settle(i, "rejected", "skipped") /\ UNCHANGED fs
       ELSE CallFn(i, OnSettled(writeQueue.state))
  /\ UNCHANGED << conc, reqLeft, fails, file0, ncommit,
                  commits >>

\* fs.writeFile of link i completes; fn issues fs.rename(tmp, BOOKS_FILE).
WriteFileDone(i) ==
  /\ i \in DOMAIN writeQueue.links
  /\ writeQueue.links[i].phase = "writing"
  /\ fs' = [fs EXCEPT ![TmpPath] = Text(writeQueue.links[i].books)]
  /\ writeQueue' = [writeQueue EXCEPT !.links[i].phase = "written"]
  /\ UNCHANGED << hs, conc, reqLeft, fails, nsub, file0, saved, assigned,
                  ncommit,
                  commits >>

\* fn of link i rejected.
RunFailed(i) ==
  CASE OnRunFailed(writeQueue.links[i].via) = "rerun" -> CallFn(i, "catch")
    [] OnRunFailed(writeQueue.links[i].via) = "reject" ->
         Settle(i, "rejected", "failed") /\ UNCHANGED fs
    [] OTHER ->
         \* a callback that returns normally fulfils the chain's promise
         Settle(i, "fulfilled", "failed") /\ UNCHANGED fs

\* fs.writeFile of link i fails.
WriteFileError(i) ==
  /\ i \in DOMAIN writeQueue.links
  /\ writeQueue.links[i].phase = "writing"
  /\ fails > 0
  /\ fails' = fails - 1
  /\ RunFailed(i)
  /\ UNCHANGED << conc, reqLeft, file0, ncommit,
                  commits >>

\* fs.rename(tmp, BOOKS_FILE) of link i completes; fn resolves.
Rename(i) ==
  /\ i \in DOMAIN writeQueue.links
  /\ writeQueue.links[i].phase = "written"
  /\ fs[TmpPath].kind # "missing"
  /\ fs' = IF TmpPath = BOOKS_FILE THEN fs
           ELSE [fs EXCEPT ![BOOKS_FILE] = fs[TmpPath], ![TmpPath] = Missing]
  /\ ncommit' = ncommit + 1
  /\ commits' = Append(commits, [seq |-> writeQueue.links[i].seq,
                                  seed |-> writeQueue.links[i].seed,
                                  books |-> writeQueue.links[i].books,
                                  over |-> fs[BOOKS_FILE]])
  /\ Settle(i, "fulfilled", "ok")
  /\ UNCHANGED << conc, reqLeft, fails, file0 >>

\* fs.rename of link i fails: a storage failure, or no temporary file.
RenameError(i) ==
  /\ i \in DOMAIN writeQueue.links
  /\ writeQueue.links[i].phase = "written"
  /\ \/ fails > 0 /\ fails' = fails - 1
     \/ fs[TmpPath].kind = "missing" /\ fails' = fails
  /\ RunFailed(i)
  /\ UNCHANGED << conc, reqLeft, file0, ncommit,
                  commits >>

(* --------------------------- specifications ---------------------------- *)

InitWith(c, n) ==
  /\ file0 \in InitFiles
  /\ fs = [p \in {BOOKS_FILE, TmpPath} |->
             IF p = BOOKS_FILE THEN file0 ELSE Missing]
  /\ writeQueue = [state |-> "fulfilled", links |-> << >>]
  /\ hs = [h \in Handlers |-> IdleHandler]
  /\ conc = c
  /\ reqLeft = n
  /\ fails = MaxFailures
  /\ nsub = 0
  /\ saved = {}
  /\ assigned = << >>
  /\ ncommit = 0
  /\ commits = << >>

\* concurrent handlers
Init == InitWith(NumHandlers, MaxRequests)

\* one request at a time
InitSeq == InitWith(1, MaxSeqRequests)

Next ==
  \/ \E h \in Handlers : \E r \in Requests : Request(h, r)
  \/ \E h \in Handlers : ReadFile(h)
  \/ \E h \in Handlers : ReadFileError(h)
  \/ \E i \in DOMAIN writeQueue.links : StartWrite(i)
  \/ \E i \in DOMAIN writeQueue.links : WriteFileDone(i)
  \/ \E i \in DOMAIN writeQueue.links : WriteFileError(i)
  \/ \E i \in DOMAIN writeQueue.links : Rename(i)
  \/ \E i \in DOMAIN writeQueue.links : RenameError(i)

Spec == Init /\ [][Next]_vars

SpecSeq == InitSeq /\ [][Next]_vars

\* The event loop runs every callback that is due, and every fs.writeFile
\* and fs.rename that was issued completes or fails.
Fairness ==
  /\ WF_vars(\E i \in DOMAIN writeQueue.links : StartWrite(i))
  /\ WF_vars(\E i \in DOMAIN writeQueue.links : WriteFileDone(i))
  /\ WF_vars(\E i \in DOMAIN writeQueue.links : Rename(i))

\* two handlers at a time
InitLive == InitWith(2, MaxRequests)

\* concurrent handlers, with progress of the write queue
SpecLive == InitLive /\ [][Next]_vars /\ Fairness

(* ------------------------------ properties ----------------------------- *)

\* the collection books.json holds
Persisted == JSONparse(fs[BOOKS_FILE].data)

Ids(books) == {books[i].id : i \in DOMAIN books}

UniqueIds(books) ==
  \A i, j \in DOMAIN books : i # j => books[i].id # books[j].id

Created(h) ==
  hs[h].pc = "done" /\ hs[h].req.method = POST_BOOKS /\ hs[h].status = 201

\* Two POST /books handlers were the only requests, overlapped, started from
\* an existing empty collection, and both responded 201.
TwoCreatesDone ==
  /\ file0 = Text(<< >>)
  /\ reqLeft = MaxRequests - 2
  /\ Created(1) /\ Created(2)

\* C1 as stated: two concurrent creates against an existing empty
\* collection that both succeed leave exactly 2 records with distinct ids,
\* and the callers get distinct ids.
C1_TwoCreatesKeepBoth ==
  TwoCreatesDone =>
    /\ Len(Persisted) = 2
    /\ UniqueIds(Persisted)
    /\ hs[1].body[1].id # hs[2].body[1].id

\* C1 amended: two concurrent creates against an existing empty collection
\* that both succeed leave 2 records with ids 1, 2 (the callers get 1 and
\* 2) when one handler loaded after the other's commit, and leave 1 record
\* with id 1 (both callers get id 1, one record is lost) when both loaded
\* the empty collection.
C1_TwoCreatesRace ==
  TwoCreatesDone =>
    IF hs[1].loaded = << >> /\ hs[2].loaded = << >>
      THEN /\ Len(Persisted) = 1
           /\ Persisted[1].id = 1
           /\ hs[1].body[1].id = 1 /\ hs[2].body[1].id = 1
      ELSE /\ Len(Persisted) = 2
           /\ Persisted[1].id = 1 /\ Persisted[2].id = 2
           /\ {hs[1].body[1].id, hs[2].body[1].id} = {1, 2}

\* both creates loaded the empty collection: one record is lost
C1_Witness ==
  /\ TwoCreatesDone
  /\ hs[1].loaded = << >> /\ hs[2].loaded = << >>
  /\ Len(Persisted) = 1

\* C2 as stated: run one after another, every successful create is
\* assigned an id strictly greater than the id of every earlier create.
C2_IdsNeverReused ==
  \A i, j \in DOMAIN assigned : i < j => assigned[i] < assigned[j]

SetMax(S) == IF S = {} THEN 0 ELSE CHOOSE m \in S : \A x \in S : x <= m

\* C2 amended: every id assigned by a create is one more than the largest
\* id of the collection that create loaded (1 for an empty collection), so
\* strictly greater than the ids of the records present, not of the records
\* deleted earlier: after the record with the maximum id is deleted, the
\* next create is assigned that id again.
C2_IdAboveLoaded ==
  \A h \in Handlers :
    (hs[h].req.method = POST_BOOKS /\ hs[h].enq > 0) =>
      /\ hs[h].body[1].id = SetMax(Ids(hs[h].loaded)) + 1
      /\ \A k \in DOMAIN hs[h].loaded :
           hs[h].loaded[k].id < hs[h].body[1].id
      /\ hs[h].books = Append(hs[h].loaded, hs[h].body[1])

\* a create was assigned the id of an earlier create whose record was deleted
C2_Witness ==
  /\ \E i, j \in DOMAIN assigned : i < j /\ assigned[i] = assigned[j]
  /\ Created(1)

Loaded(h) ==
  hs[h].pc = "saving" \/ (hs[h].pc = "done" /\ hs[h].status \in {200, 201, 404})

\* C3: books.json is never partial: it is as it was at start or the
\* complete serialization of a collection passed to writeBooksFile, and
\* every load returns such a collection; partial content exists only in
\* books.json.tmp.
C3_SaveAtomic ==
  /\ fs[BOOKS_FILE].kind # "partial"
  /\ fs[BOOKS_FILE] = file0 \/ \E c \in saved : fs[BOOKS_FILE] = Text(c)
  /\ \A h \in Handlers :
       Loaded(h) =>
         \/ file0.kind = "text" /\ hs[h].loaded = JSONparse(file0.data)
         \/ hs[h].loaded \in saved

\* a load completed while a save had written part of the temporary file
C3_Witness ==
  \E h \in Handlers :
    /\ Loaded(h) /\ hs[h].raced /\ ~ hs[h].seeded
    /\ fs[TmpPath].kind = "partial"
    /\ fs[BOOKS_FILE].kind = "text"

Running == {i \in DOMAIN writeQueue.links :
              writeQueue.links[i].phase # "waiting"}

\* C4: at most one queued write is between the start of its fs.writeFile
\* and the end of its fs.rename.
C4_OneWriter == Cardinality(Running) <= 1

\* a seed write, run again after its first run failed, writes the temporary
\* file while another handler's write waits behind it
C4_Witness ==
  /\ Len(writeQueue.links) >= 2
  /\ writeQueue.links[1].seed
  /\ writeQueue.links[1].runs = 2
  /\ writeQueue.links[1].phase = "writing"
  /\ writeQueue.links[2].phase = "waiting"
  /\ writeQueue.links[2].owner # writeQueue.links[1].owner

\* C5: while a write submitted earlier has not settled, no write submitted
\* later has started; the chain holds the writes in submission order.
C5_SubmissionOrder ==
  \A i, j \in DOMAIN writeQueue.links :
    /\ writeQueue.links[i].seq < writeQueue.links[j].seq =>
         writeQueue.links[j].phase = "waiting"
    /\ i < j => writeQueue.links[i].seq < writeQueue.links[j].seq

\* the earlier write failed once and runs again while the later one waits
C5_Witness ==
  /\ Len(writeQueue.links) >= 2
  /\ writeQueue.links[1].runs = 2
  /\ writeQueue.links[1].phase = "written"
  /\ writeQueue.links[2].phase = "waiting"

\* C6: a write queued behind a failed write still runs its own fn, and its
\* caller is told the outcome of that run: a handler whose write's last run
\* succeeded never responds 500, one whose write's last run failed responds
\* 500, and no write settles without having run.
C6_FailureNotInherited ==
  /\ \A h \in Handlers :
       /\ hs[h].own # "skipped"
       /\ (hs[h].pc = "done" /\ hs[h].own = "ok") => hs[h].status # 500
       /\ (hs[h].pc = "done" /\ hs[h].own = "failed") => hs[h].status = 500
  /\ \A i \in DOMAIN writeQueue.links :
       writeQueue.links[i].phase # "waiting" => writeQueue.links[i].runs >= 1

\* a write that started after a rejected write committed and its handler
\* responded with success
C6_Witness ==
  \E h \in Handlers :
    /\ hs[h].pc = "done" /\ hs[h].prev = "rejected"
    /\ hs[h].own = "ok" /\ hs[h].status \in {200, 201}
    /\ hs[h].enq > 0
    /\ fs[BOOKS_FILE] = Text(hs[h].books)

\* C7: no two records of the persisted collection have the same id.
C7_PersistedIdsUnique ==
  fs[BOOKS_FILE].kind = "text" => UniqueIds(Persisted)

\* overlapping handlers committed several writes and left several records
C7_Witness ==
  /\ fs[BOOKS_FILE].kind = "text"
  /\ Len(Persisted) >= 2
  /\ ncommit >= 2
  /\ \E h \in Handlers : hs[h].raced /\ hs[h].enq > 0

Listed(h) ==
  hs[h].pc = "done" /\ hs[h].req.method = GET_BOOKS /\ hs[h].status = 200

\* C8: with one request at a time, a load that finds no books.json returns
\* the two seed records (ids 1 and 2) and leaves them persisted, and a load
\* after it, with nothing committed in between, returns the same records in
\* the same order.
C8_SeedingIdempotent ==
  \A h \in Handlers :
    /\ (Listed(h) /\ hs[h].seeded) =>
         /\ hs[h].body = SAMPLE_BOOKS
         /\ << hs[h].body[1].id, hs[h].body[2].id >> = << 1, 2 >>
         /\ fs[BOOKS_FILE] = Text(SAMPLE_BOOKS)
    /\ (Listed(h) /\ ~ hs[h].seeded /\ file0 = Missing /\ ncommit = 1) =>
         hs[h].body = SAMPLE_BOOKS

\* the second load, after the seeding one
C8_Witness ==
  \E h \in Handlers :
    /\ Listed(h) /\ ~ hs[h].seeded /\ file0 = Missing /\ ncommit = 1
    /\ Len(hs[h].body) = 2

Updated(h) ==
  /\ hs[h].req.method = PUT_BOOK
  /\ hs[h].pc = "saving" \/ (hs[h].pc = "done" /\ hs[h].status = 200)

\* C9: the record a PUT found keeps its id and every field absent from the
\* payload; the fields present are overwritten; the record is what the
\* handler saves and returns.
C9_PartialUpdate ==
  \A h \in Handlers :
    Updated(h) =>
      LET r == hs[h].req
          old == hs[h].loaded[hs[h].idx]
          new == hs[h].books[hs[h].idx]
      IN /\ new.id = old.id /\ new.id = Number(r.id).n
         /\ r.title = Undefined => new.title = old.title
         /\ r.author = Undefined => new.author = old.author
         /\ r.available = Undefined => new.available = old.available
         /\ r.title # Undefined => new.title = r.title
         /\ r.author # Undefined => new.author = r.author
         /\ r.available # Undefined => new.available.t = "boolean"
         /\ hs[h].body = << new >>

\* an update of available alone changed it and kept title and author
C9_Witness ==
  \E h \in Handlers :
    /\ Updated(h) /\ hs[h].pc = "done"
    /\ hs[h].req.title = Undefined /\ hs[h].req.author = Undefined
    /\ hs[h].body[1].available # hs[h].loaded[hs[h].idx].available
    /\ hs[h].body[1].title = hs[h].loaded[hs[h].idx].title
    /\ hs[h].body[1].title # Undefined

\* the path parameters that are not positive integers
MalformedIds == {"abc", "-1", "0", "1.5"}

\* the requests C10 calls invalid
Malformed(r) ==
  \/ r.method = POST_BOOKS
       /\ (r.title \in {Undefined, Str("")} \/ r.author \in {Undefined, Str("")})
  \/ r.method \in {PUT_BOOK, DELETE_BOOK} /\ r.id \in MalformedIds
  \/ r.method = PUT_BOOK /\ r.title = Undefined /\ r.author = Undefined
       /\ r.available = Undefined

\* C10: a malformed request is answered 400 before any storage access: its
\* handler never reads books.json and submits no write, and the step that
\* answers it changes neither the files nor the queue.
C10_ValidationFirst ==
  /\ [](\A h \in Handlers :
          (hs[h].pc # "idle" /\ Malformed(hs[h].req)) =>
            /\ hs[h].pc = "done" /\ hs[h].status = 400
            /\ ~ hs[h].touched /\ hs[h].enq = 0)
  /\ [][\A h \in Handlers :
          (hs'[h] # hs[h] /\ hs'[h].status = 400) =>
            fs' = fs /\ writeQueue' = writeQueue]_vars

\* an update with a well-formed id no record has and an empty payload is
\* answered 400, not 404
C10_Witness ==
  \E h \in Handlers :
    /\ hs[h].pc = "done" /\ hs[h].status = 400
    /\ hs[h].req.method = PUT_BOOK /\ hs[h].req.id = "3"
    /\ fs[BOOKS_FILE].kind = "text" /\ 3 \notin Ids(Persisted)

\* a PUT or DELETE with a well-formed id whose load returned a collection
\* without that id
NoSuchRecord(h) ==
  /\ hs[h].req.method \in {PUT_BOOK, DELETE_BOOK}
  /\ ~ Malformed(hs[h].req)
  /\ hs[h].pc = "saving" \/ (hs[h].pc = "done" /\ hs[h].status \notin {400, 500})
  /\ Number(hs[h].req.id).n \notin Ids(hs[h].loaded)

\* C11: an update or delete whose id matches no record of the loaded
\* collection responds 404, changes no record of its collection and submits
\* no write of it; the step that answers 404 after reading an existing
\* books.json changes neither the files nor the queue.
C11_NotFoundNoWrite ==
  /\ [](\A h \in Handlers :
          NoSuchRecord(h) =>
            /\ hs[h].pc = "done" /\ hs[h].status = 404
            /\ hs[h].enq = 0 /\ hs[h].wseq = 0
            /\ hs[h].books = hs[h].loaded)
  /\ [][\A h \in Handlers :
          (hs[h].pc = "reading" /\ hs'[h].status = 404) =>
            fs' = fs /\ writeQueue' = writeQueue /\ nsub' = nsub]_vars

\* a delete of an id the existing collection does not hold was answered 404
\* and books.json is as it was
C11_Witness ==
  \E h \in Handlers :
    /\ NoSuchRecord(h) /\ hs[h].status = 404
    /\ hs[h].req.method = DELETE_BOOK
    /\ Len(hs[h].loaded) >= 1 /\ ~ hs[h].seeded
    /\ fs[BOOKS_FILE] = file0

\* C12: with one request at a time, starting from an existing empty
\* collection and as long as no record was deleted, the creates were
\* assigned 1, 2, ..., N in order and the collection holds ids 1..N in that
\* order; every successful create leaves persisted the collection it
\* loaded with one record appended, whose id is the largest loaded id (0 if
\* none) plus 1.
C12_SequentialIds ==
  /\ (file0 = Text(<< >>) /\ Len(Persisted) = Len(assigned)) =>
       /\ assigned = [k \in 1..Len(assigned) |-> k]
       /\ [k \in DOMAIN Persisted |-> Persisted[k].id] = assigned
  /\ \A h \in Handlers :
       Created(h) =>
         /\ Persisted = Append(hs[h].loaded, hs[h].body[1])
         /\ hs[h].body[1].id = SetMax(Ids(hs[h].loaded) \cup {0}) + 1

\* two creates in a row from the empty collection got ids 1 and 2
C12_Witness ==
  /\ file0 = Text(<< >>)
  /\ Len(assigned) >= 2
  /\ Len(Persisted) = Len(assigned)
  /\ Created(1)

\* C13: when books.json is unparseable no handler gets a collection: every
\* handler that reads it responds 500, with the invalid-JSON message unless
\* the read itself failed, never with the file-missing message; no write,
\* seed or other, is submitted and books.json stays as it was.
C13_CorruptNotMissing ==
  file0 = Corrupt =>
    /\ fs[BOOKS_FILE] = Corrupt
    /\ nsub = 0 /\ saved = {} /\ writeQueue.links = << >>
    /\ \A h \in Handlers :
         (hs[h].pc = "done" /\ hs[h].touched) =>
           /\ hs[h].status = 500
           /\ hs[h].error # ErrorMessage("ENOENT")
           /\ fails = MaxFailures => hs[h].error = ErrorMessage("SyntaxError")
           /\ ~ hs[h].seeded

\* a create on an unparseable file was answered with the invalid-JSON error
C13_Witness ==
  \E h \in Handlers :
    /\ file0 = Corrupt
    /\ hs[h].pc = "done" /\ hs[h].req.method = POST_BOOKS
    /\ hs[h].status = 500
    /\ hs[h].error = "Books file contains invalid JSON"

\* C14: a load returns the collection, records and order, that the newest
\* rename onto books.json was given (the seed for the load that created the
\* file; the initial content when nothing was committed yet).
C14_NoStaleLoad ==
  \A h \in Handlers :
    Loaded(h) =>
      /\ IF hs[h].seen = << >>
           THEN file0.kind = "text" /\ hs[h].loaded = JSONparse(file0.data)
           ELSE hs[h].loaded = hs[h].seen[1]
      /\ hs[h].seeded => hs[h].loaded = SAMPLE_BOOKS

\* a load that ran while a later save was in flight returned the records of
\* the newest committed save, one of them unavailable
C14_Witness ==
  \E h \in Handlers :
    /\ Loaded(h) /\ ~ hs[h].seeded /\ hs[h].raced
    /\ hs[h].seen # << >>
    /\ Len(hs[h].loaded) >= 2
    /\ \E k \in DOMAIN hs[h].loaded : hs[h].loaded[k].available = Bool(FALSE)

\* C15: fn of every submitted write (its fs.writeFile and fs.rename) is run
\* at most once, whether it fails or not and whatever the write before did.
C15_AttemptedOnce ==
  \A i \in DOMAIN writeQueue.links : writeQueue.links[i].runs <= 1

\* C16 as stated: load submits its seed write only when books.json was
\* absent at start, and a seed write is never renamed over a books.json
\* that exists.
C16_SeedOnlyOverMissing ==
  /\ \A i \in DOMAIN writeQueue.links :
       writeQueue.links[i].seed => file0 = Missing
  /\ \A k \in DOMAIN commits :
       commits[k].seed => commits[k].over = Missing

\* C16 amended: load submits its seed write only when books.json was absent
\* at start; a seed write is renamed onto books.json only while it is
\* absent or holds the seed put there by an earlier seed write (concurrent
\* first loads each seed), never after the write of a create, update or
\* delete was committed.
C16_SeedNeverOverSave ==
  /\ \A i \in DOMAIN writeQueue.links :
       writeQueue.links[i].seed => file0 = Missing
  /\ \A k \in DOMAIN commits :
       commits[k].seed =>
         /\ file0 = Missing
         /\ commits[k].books = SAMPLE_BOOKS
         /\ commits[k].over \in {Missing, Text(SAMPLE_BOOKS)}
         /\ \A j \in 1..(k - 1) : commits[j].seed

\* the seed write of a second first load was renamed over the seeded file,
\* and a create was committed after it
C16_Witness ==
  \E k \in DOMAIN commits :
    /\ commits[k].seed /\ commits[k].over = Text(SAMPLE_BOOKS)
    /\ k < Len(commits) /\ ~ commits[Len(commits)].seed
    /\ Len(Persisted) = 3

\* C17: whenever writes are pending, a later state has none pending: every
\* submitted write eventually starts and settles (commits or fails), also
\* behind writes that fail, since a write leaves the chain only by settling.
C17_QueueProgress == (writeQueue.links # << >>) ~> (writeQueue.links = << >>)

\* a write waits behind a write that was rejected
C17_Witness ==
  /\ writeQueue.state = "rejected"
  /\ writeQueue.links # << >>
  /\ writeQueue.links[1].phase = "waiting"
  /\ fails = 0

NonEmptyText(v) == v.t = "string" /\ v.s # ""

\* C18: starting from the seed, every persisted record has a non-empty
\* title and a non-empty author.
C18_NonEmptyFields ==
  (file0 = Missing /\ fs[BOOKS_FILE].kind = "text") =>
    \A k \in DOMAIN Persisted :
      NonEmptyText(Persisted[k].title) /\ NonEmptyText(Persisted[k].author)

Mutated(h) ==
  /\ hs[h].req.method \in {POST_BOOKS, PUT_BOOK, DELETE_BOOK}
  /\ hs[h].pc = "done"
  /\ hs[h].status = SuccessStatus(hs[h].req)

\* C19: with one request at a time, a successful delete of id k returns the
\* record with id k and leaves persisted the loaded records without it, in
\* their order; a successful update leaves every other record as loaded,
\* in place; a successful create leaves the loaded records as they were, in
\* place, followed by the new record.
C19_OthersUntouched ==
  \A h \in Handlers :
    Mutated(h) =>
      LET r == hs[h].req
          old == hs[h].loaded
          new == Persisted
          k == Number(r.id).n
      IN
      CASE r.method = DELETE_BOOK ->
             /\ Len(hs[h].body) = 1 /\ hs[h].body[1].id = k
             /\ \E i \in DOMAIN old : old[i] = hs[h].body[1]
             /\ Len(new) = Len(old) - 1
             /\ new = SelectSeq(old, LAMBDA b : b.id # k)
        [] r.method = PUT_BOOK ->
             /\ Len(new) = Len(old)
             /\ \A i \in DOMAIN old :
                  IF old[i].id = k THEN new[i] = hs[h].body[1]
                                   ELSE new[i] = old[i]
        [] r.method = POST_BOOKS ->
             /\ Len(new) = Len(old) + 1
             /\ \A i \in DOMAIN old : new[i] = old[i]
             /\ new[Len(new)] = hs[h].body[1]

\* the first of two records was deleted and the second is what remains
C19_Witness ==
  \E h \in Handlers :
    /\ Mutated(h) /\ hs[h].req.method = DELETE_BOOK
    /\ Len(hs[h].loaded) = 2 /\ hs[h].idx = 1
    /\ Persisted = << hs[h].loaded[2] >>

CommittedSeqs == {commits[k].seq : k \in DOMAIN commits}

\* C20: a create, update or delete that responded with success had the
\* collection it submitted renamed onto books.json; one whose write failed
\* responded 500 and its collection was never renamed onto books.json.
C20_SuccessAfterCommit ==
  \A h \in Handlers :
    /\ Mutated(h) =>
         \E k \in DOMAIN commits :
           /\ commits[k].seq = hs[h].wseq
           /\ commits[k].books = hs[h].books
           /\ ~ commits[k].seed
    /\ (hs[h].pc = "done" /\ hs[h].enq > 0 /\ hs[h].own = "failed") =>
         /\ hs[h].status = 500
         /\ hs[h].wseq \notin CommittedSeqs

\* one handler's write failed and it responded 500 while the other's write
\* was committed and it responded with success
C20_Witness ==
  \E h, g \in Handlers :
    /\ hs[h].pc = "done" /\ hs[h].enq > 0 /\ hs[h].own = "failed"
    /\ hs[h].status = 500
    /\ Mutated(g) /\ hs[g].wseq \in CommittedSeqs
    /\ fs[BOOKS_FILE] = Text(hs[g].books)

====
